---- MODULE Spec2Model ----
(***************************************************************************)
(* Model of the embassy-backend HTTP service: the four application tables  *)
(* (visa, marriage, birth certificate, travel pass), their create, read,   *)
(* status-update, tracking and PDF handlers, the auth middleware and the   *)
(* best-effort notification mail.  A handler is split at its awaits: the   *)
(* synchronous code before the first await is StartRequest, and every      *)
(* later step is the database (or mail provider, or barcode library)       *)
(* answering together with the synchronous continuation that follows.     *)
(* The tables are taken with the columns the handlers address.  The chat   *)
(* tables and their handlers, the reachability of the database and the    *)
(* start of the process (initDB, app.listen) are modelled as well.         *)
(***************************************************************************)
EXTENDS Integers, Sequences, FiniteSets, TLC

VARIABLES apps, now, req, sendgridKey, chat, dbUp, server,
          login, authHits, nodeEnv, credential

vars == <<apps, now, req, sendgridKey, chat, dbUp, server,
         login, authHits, nodeEnv, credential>>

\* ------------------------------------------------------------------ bounds

\* At most MaxApps rows are inserted over all application tables.
MaxApps == 2
\* At most MaxClock store writes (INSERT or UPDATE of an existing row).
MaxClock == 3

\* ------------------------------------------------------------------ values

Types == {"visa", "marriage", "birth", "travel"}

Slots == {"r1", "r2"}

\* JavaScript undefined (a body field that is absent).
Undefined == "<undefined>"

\* A JavaScript value of a request body: undefined, a string (its characters
\* as a sequence) or a number.
JsUndefined == [ty |-> "undefined", s |-> <<>>]
JsString(chars) == [ty |-> "string", s |-> chars]
JsNumber == [ty |-> "number", s |-> <<>>]
\* SQL NULL in a VARCHAR / ENUM column, and a stored string.
SqlNull == [ty |-> "null", s |-> <<>>]
SqlString(chars) == [ty |-> "string", s |-> chars]

\* !v for the body values above: undefined and "" are falsy, a non-zero
\* number and a non-empty string are truthy.
Falsy(v) == v.ty = "undefined" \/ (v.ty = "string" /\ v.s = <<>>)

\* String.prototype.trim on a sequence of characters.
RECURSIVE TrimLeft(_)
TrimLeft(s) == IF s # <<>> /\ Head(s) = " " THEN TrimLeft(Tail(s)) ELSE s
RECURSIVE TrimRight(_)
TrimRight(s) ==
    IF s # <<>> /\ s[Len(s)] = " " THEN TrimRight(SubSeq(s, 1, Len(s) - 1)) ELSE s
Trim(s) == TrimRight(TrimLeft(s))

\* ------------------------------------------------------------------ tokens

\* What authMiddleware finds in the request: no usable token (absent, bad
\* signature or expired: verifyToken returns null) or the decoded claims.
NoToken == [valid |-> FALSE, username |-> "", isAdmin |-> FALSE]
Claims(u, a) == [valid |-> TRUE, username |-> u, isAdmin |-> a]
Alice == Claims("alice", FALSE)
Bob == Claims("bob", FALSE)
Admin == Claims("admin", TRUE)
\* A second administrator, for the overlapping requests.
Admin2 == Claims("admin2", TRUE)

Tokens == {NoToken, Alice, Bob, Admin}

\* The token string of a request, by what jwt.verify makes of it: text that
\* is no JWT, or a JWT signed with some key, expired or not, and its payload.
\* An absent header or cookie (undefined) and the empty string are falsy.
NoRawToken == [form |-> "undefined", key |-> "", expired |-> FALSE, payload |-> NoToken]
EmptyRawToken == [form |-> "empty", key |-> "", expired |-> FALSE, payload |-> NoToken]
GarbageToken == [form |-> "garbage", key |-> "", expired |-> FALSE, payload |-> NoToken]
\* jwt.sign(payload, JWT_SECRET, {expiresIn}): generateToken.
generateToken(payload) ==
    [form |-> "jwt", key |-> "JWT_SECRET", expired |-> FALSE, payload |-> payload]
\* The same token once its expiry has passed, and one signed with another
\* key.
Expired(t) == [t EXCEPT !.expired = TRUE]
Forged(payload) == [generateToken(payload) EXCEPT !.key = "other"]

RawTokens ==
    {EmptyRawToken, GarbageToken, generateToken(Alice), generateToken(Admin),
     Expired(generateToken(Admin)), Forged(Admin)}

\* Mutant of verifyToken: the token is decoded without its expiry being
\* checked.
verifyToken_IgnoresExpiry(t) ==
    IF t.form = "jwt" /\ t.key = "JWT_SECRET" THEN t.payload ELSE NoToken

\* verifyToken: jwt.verify throws on text that is no JWT, on a signature
\* made with another key and on an expired token; the catch returns null.
verifyToken(t) ==
    IF t.form = "jwt" /\ t.key = "JWT_SECRET" /\ ~t.expired THEN t.payload ELSE NoToken

\* The Authorization header and the token cookie of a request.
Headers ==
    {[scheme |-> "none", token |-> NoRawToken], [scheme |-> "Basic", token |-> GarbageToken]}
    \cup {[scheme |-> "Bearer", token |-> t] : t \in RawTokens}
Cookies == {NoRawToken, generateToken(Alice), Expired(generateToken(Admin))}
Credentials == [authorization : Headers, cookie : Cookies]

\* authMiddleware: the token is the rest of a "Bearer " header, else the
\* token cookie; a falsy token and a token that does not verify are both
\* answered 401 (no req.user), else req.user is the decoded payload.
authMiddleware(c) ==
    LET token == IF c.authorization.scheme = "Bearer"
                 THEN c.authorization.token ELSE c.cookie
    IN  IF token.form \in {"undefined", "empty"} THEN NoToken
        ELSE verifyToken(token)

\* ---------------------------------------------------- status_history text

\* The status_history TEXT column: NULL, the empty string, the JSON text of
\* an array, JSON text of something that is not an array, or text that is
\* not JSON.
NullText == [kind |-> "null", val |-> <<>>]
EmptyText == [kind |-> "empty", val |-> <<>>]
OtherJsonText == [kind |-> "other", val |-> <<>>]
GarbageText == [kind |-> "garbage", val |-> <<>>]

\* JSON.stringify of an array of history entries.
JSONstringify(arr) == [kind |-> "array", val |-> arr]

\* JSON.parse: throws on text that is not JSON, else returns the value.
JSONparse(text) ==
    CASE text.kind = "array" -> [throws |-> FALSE, isArray |-> TRUE, val |-> text.val]
      [] text.kind = "other" -> [throws |-> FALSE, isArray |-> FALSE, val |-> <<>>]
      [] OTHER -> [throws |-> TRUE, isArray |-> FALSE, val |-> <<>>]

\* Truthiness of the column value: NULL and '' are falsy.
TextTruthy(text) == text.kind \notin {"null", "empty"}

\* The statusHistory the API exposes for a row: the entries of the stored
\* text when it is a JSON array, the empty sequence otherwise.
HistoryOf(row) ==
    IF row.status_history.kind = "array" THEN row.status_history.val ELSE <<>>

\* entry.field in JavaScript: undefined when the entry has no such field.
PreviousStatusOf(e) ==
    IF "previousStatus" \in DOMAIN e THEN e.previousStatus ELSE Undefined

\* String.prototype.toLowerCase on the usernames of the model.
ToLowerCase(u) == IF u = "Alice" THEN "alice" ELSE IF u = "Ann" THEN "ann" ELSE u

\* The = of a WHERE clause on a VARCHAR column (case-insensitive collation).
SqlEq(a, b) == ToLowerCase(a) = ToLowerCase(b)

\* SQL NULL in a column modelled by a plain string.
Null == "<null>"

\* ------------------------------------------------------------------- store

\* A row of an application table, reduced to the columns the workflow uses.
NewRow(owner, at) ==
    [user_name |-> owner, status |-> "pending", status_history |-> NullText,
     tracking_number |-> SqlNull, shipping_carrier |-> Null, updated_at |-> at]

\* SELECT ... WHERE id = ?: the rows array of the result (ids are assigned
\* by AUTO_INCREMENT and no row is ever deleted).
SelectById(t, id) == IF id \in 1..Len(apps[t]) THEN <<apps[t][id]>> ELSE <<>>

\* The ids of the rows of table t whose user_name matches u.
IdsOfUser(t, u) == {i \in 1..Len(apps[t]) : SqlEq(apps[t][i].user_name, u)}

TotalRows == Len(apps["visa"]) + Len(apps["marriage"]) + Len(apps["birth"]) + Len(apps["travel"])

\* ---------------------------------------------------------------- requests

\* A request slot: the request, the handler's local variables, what it has
\* done so far and its response.
Idle ==
    [pc |-> "idle", kind |-> "", type |-> "", id |-> 0, token |-> NoToken,
     status |-> Undefined, trackingNumber |-> JsUndefined, carrier |-> Undefined,
     username |-> "", formOk |-> TRUE,
     rows |-> <<>>, oldStatus |-> "", statusHistory |-> <<>>,
     queries |-> 0, written |-> FALSE, sends |-> 0, mailTo |-> "", mailResult |-> "none",
     piped |-> FALSE, password |-> Undefined, hit |-> 0, issued |-> NoToken,
     code |-> 0, body |-> "none", data |-> {}]

InFlight(r) == req[r].pc \notin {"idle", "done"}

WriterKinds == {"create", "status", "tracking"}

WritersInFlight == Cardinality({r \in Slots : InFlight(r) /\ req[r].kind \in WriterKinds})

CreatesInFlight == Cardinality({r \in Slots : InFlight(r) /\ req[r].kind = "create"})

\* res.status(code).json(...) / res.json(...): the response ends the request.
Respond(q, code, body, data) ==
    [q EXCEPT !.pc = "done", !.code = code, !.body = body, !.data = data]

\* await pool.query(...): the handler suspends until the store answers.
Await(q, pc) == [q EXCEPT !.pc = pc, !.queries = q.queries + 1]

\* authMiddleware: 401 without a token that verifies.
AuthRejects(q) == ~q.token.valid

\* Mutant of AdminRejects: the isAdmin test is dropped.
AdminRejects_AuthOnly(q) == ~q.token.valid

\* adminMiddleware: 403 unless the verified claims carry isAdmin.
AdminRejects(q) == ~q.token.valid \/ ~q.token.isAdmin

\* The validStatuses array of each status handler.
ValidStatuses(t) ==
    IF t = "travel"
    THEN {"pending", "under_review", "approved", "denied", "issued", "collected"}
    ELSE {"pending", "under_review", "approved", "denied", "shipped"}

\* Mutant of StatusRejected: the includes() test is dropped, only a missing
\* status is refused.
StatusRejected_MissingOnly(t, st) == st \in {Undefined, ""}

\* The 400 test of each status handler: the travel-pass handler has no
\* separate !status test, which the includes() test covers.
StatusRejected(t, st) ==
    IF t = "travel"
    THEN st \notin ValidStatuses(t)
    ELSE st \in {Undefined, ""} \/ st \notin ValidStatuses(t)

\* The 400 test of each tracking handler: only the visa handler trims.
TrackingRejected(t, v) ==
    IF t = "visa"
    THEN Falsy(v) \/ v.ty # "string" \/ Len(Trim(v.s)) = 0
    ELSE Falsy(v) \/ v.ty # "string"

\* Mutant of OwnerDenied: the negation of isAdmin is lost.
OwnerDenied_AdminOnly(q, row) == q.token.isAdmin /\ q.token.username # row.user_name

\* The ownership test of the detail and PDF handlers.
OwnerDenied(q, row) == ~q.token.isAdmin /\ q.token.username # row.user_name

\* The ownership test of the list handlers: the travel-pass handler compares
\* the parameter as given, the others lower-case it first.
ListDenied(q) ==
    IF q.type = "travel"
    THEN q.token.username # q.username /\ ~q.token.isAdmin
    ELSE ~q.token.isAdmin /\ q.token.username # ToLowerCase(q.username)

\* ------------------------------------------------------------------ inputs

StatusInputs == {Undefined, "approved", "shipped", "issued"}
\* Bodies of a tracking request: trackingNumber and carrier.
TrackingBodies ==
    {[trackingNumber |-> JsUndefined, carrier |-> Undefined],
     [trackingNumber |-> JsNumber, carrier |-> "ups"],
     [trackingNumber |-> JsString(<<" ">>), carrier |-> Undefined],
     [trackingNumber |-> JsString(<<"T", " ">>), carrier |-> Undefined],
     [trackingNumber |-> JsString(<<"T", " ">>), carrier |-> "ups"]}
UsernameParams == {"alice", "Alice", "bob"}
IdInputs == 1..MaxApps

\* Room for one more store write, and for one more row.
WriteRoom == now + WritersInFlight < MaxClock
RowRoom == TotalRows + CreatesInFlight < MaxApps

\* ------------------------------------------------------------------ actions

\* POST /api/{type}-applications up to its INSERT.  formOk: the body passes
\* visaApplicationValidation (visa) / fills the NOT NULL columns (others).
PostApplication(r, callers) ==
    /\ req[r].pc = "idle"
    /\ \E t \in Types, tok \in callers, ok \in BOOLEAN :
         LET q == [Idle EXCEPT !.kind = "create", !.type = t, !.token = tok, !.formOk = ok]
         IN  /\ AuthRejects(q) \/ (t = "visa" /\ ~ok) \/ (WriteRoom /\ RowRoom)
             /\ req' = [req EXCEPT ![r] =
                    IF AuthRejects(q) THEN Respond(q, 401, "error", {})
                    ELSE IF t = "visa" /\ ~ok THEN Respond(q, 400, "error", {})
                    ELSE Await(q, "insert")]
    /\ UNCHANGED <<apps, now, sendgridKey, chat, dbUp, server,
                 login, authHits, nodeEnv, credential>>

\* GET /api/{type}-applications/:id up to its SELECT.
GetApplication(r, callers) ==
    /\ req[r].pc = "idle"
    /\ \E t \in Types, tok \in callers, id \in IdInputs :
         LET q == [Idle EXCEPT !.kind = "detail", !.type = t, !.token = tok, !.id = id]
         IN  req' = [req EXCEPT ![r] =
                    IF AuthRejects(q) THEN Respond(q, 401, "error", {})
                    ELSE Await(q, "select")]
    /\ UNCHANGED <<apps, now, sendgridKey, chat, dbUp, server,
                 login, authHits, nodeEnv, credential>>

\* GET /api/{type}-applications/:id/pdf up to its SELECT.
GetPdf(r) ==
    /\ req[r].pc = "idle"
    /\ \E t \in Types, tok \in Tokens, id \in IdInputs :
         LET q == [Idle EXCEPT !.kind = "pdf", !.type = t, !.token = tok, !.id = id]
         IN  req' = [req EXCEPT ![r] =
                    IF AuthRejects(q) THEN Respond(q, 401, "error", {})
                    ELSE Await(q, "select")]
    /\ UNCHANGED <<apps, now, sendgridKey, chat, dbUp, server,
                 login, authHits, nodeEnv, credential>>

\* GET /api/{type}-applications/user/:username up to its SELECT.
GetUserApplications(r) ==
    /\ req[r].pc = "idle"
    /\ \E t \in Types, tok \in Tokens, u \in UsernameParams :
         LET q == [Idle EXCEPT !.kind = "list", !.type = t, !.token = tok, !.username = u]
         IN  req' = [req EXCEPT ![r] =
                    IF AuthRejects(q) THEN Respond(q, 401, "error", {})
                    ELSE IF ListDenied(q) THEN Respond(q, 403, "error", {})
                    ELSE Await(q, "select")]
    /\ UNCHANGED <<apps, now, sendgridKey, chat, dbUp, server,
                 login, authHits, nodeEnv, credential>>

\* PUT /api/{type}-applications/:id/status up to its first query: a SELECT
\* in the visa and travel-pass handlers, the UPDATE in the other two.
PutStatus(r, callers) ==
    /\ req[r].pc = "idle"
    /\ \E t \in Types, tok \in callers, id \in IdInputs, st \in StatusInputs :
         LET q == [Idle EXCEPT !.kind = "status", !.type = t, !.token = tok,
                               !.id = id, !.status = st]
         IN  /\ AdminRejects(q) \/ StatusRejected(t, st) \/ WriteRoom
             /\ req' = [req EXCEPT ![r] =
                    IF AuthRejects(q) THEN Respond(q, 401, "error", {})
                    ELSE IF AdminRejects(q) THEN Respond(q, 403, "error", {})
                    ELSE IF StatusRejected(t, st) THEN Respond(q, 400, "error", {})
                    ELSE IF t \in {"visa", "travel"} THEN Await(q, "select")
                    ELSE Await(q, "update")]
    /\ UNCHANGED <<apps, now, sendgridKey, chat, dbUp, server,
                 login, authHits, nodeEnv, credential>>

\* PUT /api/{type}-applications/:id/tracking up to its first query: a SELECT
\* in the visa handler, the UPDATE in the other three.
PutTracking(r, callers) ==
    /\ req[r].pc = "idle"
    /\ \E t \in Types, tok \in callers, id \in IdInputs, b \in TrackingBodies :
         LET tn == b.trackingNumber
             q == [Idle EXCEPT !.kind = "tracking", !.type = t, !.token = tok,
                               !.id = id, !.trackingNumber = tn, !.carrier = b.carrier]
         IN  /\ AdminRejects(q) \/ TrackingRejected(t, tn) \/ WriteRoom
             /\ req' = [req EXCEPT ![r] =
                    IF AuthRejects(q) THEN Respond(q, 401, "error", {})
                    ELSE IF AdminRejects(q) THEN Respond(q, 403, "error", {})
                    ELSE IF TrackingRejected(t, tn) THEN Respond(q, 400, "error", {})
                    ELSE IF t = "visa" THEN Await(q, "select")
                    ELSE Await(q, "update")]
    /\ UNCHANGED <<apps, now, sendgridKey, chat, dbUp, server,
                 login, authHits, nodeEnv, credential>>

\* ------------------------------------------------- handler continuations

\* The visa status handler's "Build status history": the parsed array, []
\* when the column is falsy or JSON.parse throws; the push that follows
\* throws a TypeError when the parsed value is not an array.
VisaStatusHistory(text) ==
    LET parsed == JSONparse(text)
    IN  IF ~TextTruthy(text) \/ parsed.throws
        THEN [throws |-> FALSE, val |-> <<>>]
        ELSE [throws |-> ~parsed.isArray, val |-> parsed.val]

\* The travel-pass status handler's history: JSON.parse is not guarded, and
\* current[0]?.status_history is undefined when no row was found.
TravelStatusHistory(rows) ==
    IF rows = <<>> \/ ~TextTruthy(rows[1].status_history)
    THEN [throws |-> FALSE, val |-> <<>>]
    ELSE LET parsed == JSONparse(rows[1].status_history)
         IN  [throws |-> parsed.throws \/ ~parsed.isArray, val |-> parsed.val]

\* The entry each handler pushes.
VisaEntry(q, oldStatus) ==
    [status |-> q.status, changedBy |-> q.token.username, changedAt |-> now,
     previousStatus |-> oldStatus]
TravelEntry(q) == [status |-> q.status, timestamp |-> now]

\* The status handlers after their SELECT.
StatusSelected(q, rows) ==
    IF q.type = "visa"
    THEN IF rows = <<>>
         THEN Respond(q, 404, "error", {})
         ELSE LET h == VisaStatusHistory(rows[1].status_history)
              IN  IF h.throws
                  THEN Respond([q EXCEPT !.rows = rows], 500, "error", {})
                  ELSE Await([q EXCEPT !.rows = rows, !.oldStatus = rows[1].status,
                                       !.statusHistory =
                                           Append(h.val, VisaEntry(q, rows[1].status))],
                             "update")
    ELSE LET h == TravelStatusHistory(rows)
         IN  IF h.throws
             THEN Respond([q EXCEPT !.rows = rows], 500, "error", {})
             ELSE Await([q EXCEPT !.rows = rows,
                                  !.statusHistory = Append(h.val, TravelEntry(q))],
                        "update")

\* The visa tracking handler after its SELECT.
TrackingSelected(q, rows) ==
    IF rows = <<>>
    THEN Respond(q, 404, "error", {})
    ELSE Await([q EXCEPT !.rows = rows], "update")

\* The detail handlers after their SELECT.
DetailSelected(q, rows) ==
    IF rows = <<>> THEN Respond(q, 404, "error", {})
    ELSE IF OwnerDenied(q, rows[1]) THEN Respond(q, 403, "error", {})
    ELSE Respond([q EXCEPT !.rows = rows], 200, "row", {<<q.type, q.id>>})

\* The PDF handlers after their SELECT: bwipjs.toBuffer is awaited next.
PdfSelected(q, rows) ==
    IF rows = <<>> THEN Respond(q, 404, "error", {})
    ELSE IF OwnerDenied(q, rows[1]) THEN Respond(q, 403, "error", {})
    ELSE [q EXCEPT !.rows = rows, !.pc = "barcode"]

\* The list handlers after their SELECT ... WHERE user_name = ?.
ListSelected(q) ==
    LET u == IF q.type = "travel" THEN q.username ELSE ToLowerCase(q.username)
    IN  Respond(q, 200, "rows", {<<q.type, i>> : i \in IdsOfUser(q.type, u)})

\* The store answers a SELECT and the handler runs on to its next await or
\* to its response.
DbSelect(r) ==
    /\ req[r].pc = "select"
    /\ LET q == req[r]
           rows == SelectById(q.type, q.id)
       IN  req' = [req EXCEPT ![r] =
               CASE q.kind = "status" -> StatusSelected(q, rows)
                 [] q.kind = "tracking" -> TrackingSelected(q, rows)
                 [] q.kind = "detail" -> DetailSelected(q, rows)
                 [] q.kind = "pdf" -> PdfSelected(q, rows)
                 [] OTHER -> ListSelected(q)]
    /\ UNCHANGED <<apps, now, sendgridKey, chat, dbUp, server,
                 login, authHits, nodeEnv, credential>>

\* Mutant of OwnerOf: the owner is the userName field of the request body.
OwnerOf_FromBody(q) == q.username

\* The owner column of the INSERT: userName.toLowerCase() in the visa,
\* marriage and birth-certificate handlers, user.username in the travel one.
OwnerOf(q) == IF q.type = "travel" THEN q.token.username ELSE ToLowerCase(q.token.username)

\* The store executes the INSERT: a body that leaves a NOT NULL column
\* empty makes it fail (500), else the row is created with status pending.
DbInsert(r) ==
    /\ req[r].pc = "insert"
    /\ LET q == req[r]
       IN  IF q.formOk
           THEN /\ apps' = [apps EXCEPT ![q.type] = Append(@, NewRow(OwnerOf(q), now + 1))]
                /\ now' = now + 1
                /\ req' = [req EXCEPT ![r] =
                       Respond([q EXCEPT !.written = TRUE, !.id = Len(apps[q.type]) + 1],
                               200, "success", {})]
           ELSE /\ req' = [req EXCEPT ![r] = Respond(q, 500, "error", {})]
                /\ UNCHANGED <<apps, now>>
    /\ UNCHANGED <<sendgridKey, chat, dbUp, server,
                 login, authHits, nodeEnv, credential>>

\* Mutant of StatusUpdate: the visa UPDATE binds oldStatus where it should
\* bind status.
StatusUpdate_OldStatus(q, row) ==
    IF q.type = "visa"
    THEN [row EXCEPT !.status = q.oldStatus,
                     !.status_history = JSONstringify(q.statusHistory),
                     !.updated_at = now + 1]
    ELSE IF q.type = "travel"
    THEN [row EXCEPT !.status = q.status,
                     !.status_history = JSONstringify(q.statusHistory),
                     !.updated_at = now + 1]
    ELSE [row EXCEPT !.status = q.status, !.updated_at = now + 1]

\* Mutant of StatusUpdate: the entry is appended by the UPDATE itself to the
\* history the row holds when the UPDATE runs (an atomic append).
StatusUpdate_AppendInStore(q, row) ==
    IF q.type \in {"visa", "travel"}
    THEN [row EXCEPT !.status = q.status,
                     !.status_history =
                         JSONstringify(Append(HistoryOf(row),
                                              q.statusHistory[Len(q.statusHistory)])),
                     !.updated_at = now + 1]
    ELSE [row EXCEPT !.status = q.status, !.updated_at = now + 1]

\* Mutant of StatusUpdate: the UPDATE stores the new entry alone, dropping
\* the entries the handler read.
StatusUpdate_OnlyNewEntry(q, row) ==
    IF q.type \in {"visa", "travel"}
    THEN [row EXCEPT !.status = q.status,
                     !.status_history =
                         JSONstringify(<<q.statusHistory[Len(q.statusHistory)]>>),
                     !.updated_at = now + 1]
    ELSE [row EXCEPT !.status = q.status, !.updated_at = now + 1]

\* The SET clause of each status UPDATE: the marriage and birth-certificate
\* handlers set the status alone.
StatusUpdate(q, row) ==
    IF q.type \in {"visa", "travel"}
    THEN [row EXCEPT !.status = q.status,
                     !.status_history = JSONstringify(q.statusHistory),
                     !.updated_at = now + 1]
    ELSE [row EXCEPT !.status = q.status, !.updated_at = now + 1]

\* Mutant of TrackingUpdate: assigning a tracking number also marks the
\* application shipped.
TrackingUpdate_SetsShipped(q, row) ==
    [row EXCEPT !.tracking_number = SqlString(Trim(q.trackingNumber.s)),
                !.shipping_carrier = IF q.carrier \in {Undefined, ""} THEN Null ELSE q.carrier,
                !.status = "shipped",
                !.updated_at = now + 1]

\* The SET clause of the tracking UPDATE.
TrackingUpdate(q, row) ==
    [row EXCEPT !.tracking_number = SqlString(Trim(q.trackingNumber.s)),
                !.shipping_carrier = IF q.carrier \in {Undefined, ""} THEN Null ELSE q.carrier,
                !.updated_at = now + 1]

\* Only the visa handlers send a notification, and only with an API key.
Notifies(q) == q.type = "visa" /\ sendgridKey

\* The handler after its UPDATE: sgMail.send is called and awaited, or the
\* response is sent.
Updated(q, affected) ==
    IF Notifies(q)
    THEN [q EXCEPT !.written = affected, !.pc = "mail", !.sends = q.sends + 1,
                   !.mailTo = q.rows[1].user_name]
    ELSE Respond([q EXCEPT !.written = affected], 200, "success", {})

\* The store executes the UPDATE ... WHERE id = ? (no row: nothing changes).
DbUpdate(r) ==
    /\ req[r].pc = "update"
    /\ LET q == req[r]
           exists == q.id \in 1..Len(apps[q.type])
       IN  /\ apps' = IF exists
                      THEN [apps EXCEPT ![q.type][q.id] =
                               IF q.kind = "status" THEN StatusUpdate(q, @)
                               ELSE TrackingUpdate(q, @)]
                      ELSE apps
           /\ now' = IF exists THEN now + 1 ELSE now
           /\ req' = [req EXCEPT ![r] = Updated(q, exists)]
    /\ UNCHANGED <<sendgridKey, chat, dbUp, server,
                 login, authHits, nodeEnv, credential>>

\* Mutant of MailOutcome: the send is not wrapped in its own try, so its
\* failure reaches the handler's catch block.
MailOutcome_Propagates(q, delivered) ==
    IF delivered
    THEN Respond([q EXCEPT !.mailResult = "sent"], 200, "success", {})
    ELSE Respond([q EXCEPT !.mailResult = "failed"], 500, "error", {})

\* The outcome of the notification send: a failure is logged and swallowed.
MailOutcome(q, delivered) ==
    Respond([q EXCEPT !.mailResult = IF delivered THEN "sent" ELSE "failed"],
            200, "success", {})

\* sgMail.send settles, either way.
MailSettled(r) ==
    /\ req[r].pc = "mail"
    /\ \E delivered \in BOOLEAN : req' = [req EXCEPT ![r] = MailOutcome(req[r], delivered)]
    /\ UNCHANGED <<apps, now, sendgridKey, chat, dbUp, server,
                 login, authHits, nodeEnv, credential>>

\* The PDF handlers after bwipjs.toBuffer: a rejection reaches the catch
\* block (500).  Otherwise the PDF headers are set, the document is piped
\* to the response and drawn; an exception while drawing reaches the same
\* catch block, which sends its 500 on the response the document is piped
\* to (nothing has been flushed yet: the pipe starts flowing on a later
\* tick, when it writes the document's chunks to the finished response).
PdfOutcomes == {"barcodeFailed", "renderFailed", "rendered"}
PdfRendered(q, outcome) ==
    CASE outcome = "barcodeFailed" -> Respond(q, 500, "error", {})
      [] outcome = "renderFailed" -> Respond([q EXCEPT !.piped = TRUE], 500, "error", {})
      [] OTHER -> Respond([q EXCEPT !.piped = TRUE], 200, "pdf", {<<q.type, q.id>>})

\* bwipjs.toBuffer settles and the handler runs to its end.
BarcodeSettled(r) ==
    /\ req[r].pc = "barcode"
    /\ \E outcome \in PdfOutcomes :
         req' = [req EXCEPT ![r] = PdfRendered(req[r], outcome)]
    /\ UNCHANGED <<apps, now, sendgridKey, chat, dbUp, server,
                 login, authHits, nodeEnv, credential>>

\* The response has been sent and the request is over.
Finish(r) ==
    /\ req[r].pc = "done"
    /\ req' = [req EXCEPT ![r] = Idle]
    /\ UNCHANGED <<apps, now, sendgridKey, chat, dbUp, server,
                 login, authHits, nodeEnv, credential>>

\* --------------------------------------------------------------- the rest

\* The chat tables after initDB on an empty database.
NoChat == [conversations |-> <<>>, messages |-> <<>>]

\* The process once both initDB calls have completed: it listens and the
\* schema exists.
Running == [alive |-> TRUE, startInit |-> "ok", listenInit |-> "ok"]

\* The login table after initDB on an empty database, the counter of the
\* auth rate limiter before any request, NODE_ENV other than production,
\* and a client that sends neither an Authorization header nor a cookie.
NoCredential ==
    [authorization |-> [scheme |-> "none", token |-> NoRawToken], cookie |-> NoRawToken]
NoAccounts ==
    /\ login = <<>>
    /\ authHits = 0
    /\ nodeEnv = "development"
    /\ credential = NoCredential

\* ------------------------------------------------------------ specifications

\* After initDB on an empty database; the mail API key is set or not.
Init ==
    /\ apps = [t \in Types |-> <<>>]
    /\ now = 0
    /\ req = [r \in Slots |-> Idle]
    /\ sendgridKey \in BOOLEAN
    /\ chat = NoChat /\ dbUp = TRUE /\ server = Running
    /\ NoAccounts

\* The status and tracking workflow, one request at a time.
Next ==
    \/ PostApplication("r1", {NoToken, Alice})
    \/ PutStatus("r1", {NoToken, Alice, Admin})
    \/ PutTracking("r1", {NoToken, Alice, Admin})
    \/ DbSelect("r1")
    \/ DbInsert("r1")
    \/ DbUpdate("r1")
    \/ MailSettled("r1")
    \/ Finish("r1")

Spec == Init /\ [][Next]_vars

\* The read endpoints over the applications of two users, one request at a
\* time.
NextRead ==
    \/ PostApplication("r1", {NoToken, Alice, Bob})
    \/ GetApplication("r1", Tokens)
    \/ GetPdf("r1")
    \/ GetUserApplications("r1")
    \/ DbSelect("r1")
    \/ DbInsert("r1")
    \/ BarcodeSettled("r1")
    \/ Finish("r1")

SpecRead == Init /\ [][NextRead]_vars

\* One application of any type, as PostApplication leaves it.
InitOneApp ==
    /\ \E t \in Types : apps = [u \in Types |-> IF u = t THEN <<NewRow("alice", 1)>> ELSE <<>>]
    /\ now = 1
    /\ req = [r \in Slots |-> Idle]
    /\ sendgridKey \in BOOLEAN
    /\ chat = NoChat /\ dbUp = TRUE /\ server = Running
    /\ NoAccounts

\* Status updates of two administrators that overlap freely.
NextRace ==
    \/ PutStatus("r1", {Admin})
    \/ PutStatus("r2", {Admin2})
    \/ \E r \in Slots :
         \/ DbSelect(r)
         \/ DbUpdate(r)
         \/ MailSettled(r)
         \/ Finish(r)

SpecRace == InitOneApp /\ [][NextRace]_vars

\* One visa or travel-pass application, as PostApplication leaves it; the
\* mail API key is set.
InitWorkflowRace ==
    /\ \E t \in {"visa", "travel"} :
         apps = [u \in Types |-> IF u = t THEN <<NewRow("alice", 1)>> ELSE <<>>]
    /\ now = 1
    /\ req = [r \in Slots |-> Idle]
    /\ sendgridKey = TRUE
    /\ chat = NoChat /\ dbUp = TRUE /\ server = Running
    /\ NoAccounts

\* Status updates of one administrator, status updates and tracking
\* assignments of another, overlapping freely.
NextWorkflowRace ==
    \/ PutStatus("r1", {Admin})
    \/ PutStatus("r2", {Admin2})
    \/ PutTracking("r2", {Admin2})
    \/ \E r \in Slots :
         \/ DbSelect(r)
         \/ DbUpdate(r)
         \/ MailSettled(r)
         \/ Finish(r)

SpecWorkflowRace == InitWorkflowRace /\ [][NextWorkflowRace]_vars

\* One visa application of alice, and a client that sends the same
\* Authorization header and cookie with each of its requests.
InitAuth ==
    /\ apps = [u \in Types |-> IF u = "visa" THEN <<NewRow("alice", 1)>> ELSE <<>>]
    /\ now = 1
    /\ req = [r \in Slots |-> Idle]
    /\ sendgridKey = FALSE
    /\ chat = NoChat /\ dbUp = TRUE /\ server = Running
    /\ login = <<>> /\ authHits = 0 /\ nodeEnv = "development"
    /\ credential \in Credentials

\* Guarded endpoints called by that client, one request at a time: req.user
\* is what authMiddleware makes of the client's header and cookie.
NextAuth ==
    \/ PostApplication("r1", {authMiddleware(credential)})
    \/ GetApplication("r1", {authMiddleware(credential)})
    \/ PutStatus("r1", {authMiddleware(credential)})
    \/ PutTracking("r1", {authMiddleware(credential)})
    \/ DbSelect("r1")
    \/ DbInsert("r1")
    \/ DbUpdate("r1")
    \/ Finish("r1")

SpecAuth == InitAuth /\ [][NextAuth]_vars

\* Rows that were in the table before this process started: the column is
\* TEXT, so it can hold NULL, '', a JSON array, other JSON or other text.
LegacyTexts ==
    {NullText, EmptyText, JSONstringify(<<>>),
     JSONstringify(<<[status |-> "pending", timestamp |-> 0]>>),
     OtherJsonText, GarbageText}

InitLegacy ==
    /\ \E t \in Types, text \in LegacyTexts :
         apps = [u \in Types |->
                    IF u = t THEN <<[NewRow("alice", 1) EXCEPT !.status_history = text]>>
                    ELSE <<>>]
    /\ now = 1
    /\ req = [r \in Slots |-> Idle]
    /\ sendgridKey \in BOOLEAN
    /\ chat = NoChat /\ dbUp = TRUE /\ server = Running
    /\ NoAccounts

\* Status updates on such a row, one request at a time.
NextLegacy ==
    \/ PutStatus("r1", {Admin})
    \/ DbSelect("r1")
    \/ DbUpdate("r1")
    \/ MailSettled("r1")
    \/ Finish("r1")

SpecLegacy == InitLegacy /\ [][NextLegacy]_vars

\* -------------------------------------------------------------------- chat

\* The clock of the store in the chat specifications: NOW() and
\* CURRENT_TIMESTAMP read it, and it advances on its own up to MaxTime.
MaxTime == 1
\* At most MaxMsgs rows are inserted into chat_messages.
MaxMsgs == 2

SessionIds == {"s1", "s2"}
SessionInputs == SessionIds \cup {Undefined}
UserNames == {"ann", "ben"}
\* senderType and message of a POST /api/chat/message body.
MessageBodies ==
    {[senderType |-> Undefined, message |-> "hello"],
     [senderType |-> "user", message |-> Undefined],
     [senderType |-> "user", message |-> "hello"],
     [senderType |-> "admin", message |-> "hello"]}
\* conversationId of a body or :id of a path: an id that AUTO_INCREMENT has
\* given or will give, or none (0 stands for a missing conversationId).
ConversationIds == 0..Cardinality(SessionIds)

\* A chat request slot.
ChatIdle ==
    [pc |-> "idle", kind |-> "", token |-> NoToken,
     sessionId |-> Undefined, userName |-> Undefined, senderType |-> Undefined,
     message |-> Undefined, conversationId |-> 0,
     queries |-> 0, rejected |-> "none", inserted |-> 0,
     code |-> 0, body |-> "none", conversation |-> 0, messages |-> <<>>]

\* SELECT ... FROM chat_conversations WHERE session_id = ?: the ids found.
ConversationsOfSession(sid) ==
    {i \in 1..Len(chat.conversations) : chat.conversations[i].session_id = sid}

\* SELECT * FROM chat_messages WHERE conversation_id = ? ORDER BY created_at
\* ASC, as the ids of the rows: rows are inserted in clock order, so the
\* order of the ids is an order by created_at.
RECURSIVE MessagesUpTo(_, _)
MessagesUpTo(id, n) ==
    IF n = 0 THEN <<>>
    ELSE IF chat.messages[n].conversation_id = id
         THEN Append(MessagesUpTo(id, n - 1), n)
         ELSE MessagesUpTo(id, n - 1)
MessagesOf(id) == MessagesUpTo(id, Len(chat.messages))

\* Message inserts that requests in flight may still make.
MessageWriters ==
    Cardinality({r \in Slots : /\ req[r].pc \in {"select", "insert"}
                               /\ req[r].kind \in {"message", "reply"}})
MessageRoom == Len(chat.messages) + MessageWriters < MaxMsgs

\* pool.query rejected: the handler's catch block answers 500.
ServerError(q, why) ==
    [q EXCEPT !.pc = "done", !.code = 500, !.body = "error", !.rejected = why]

ChatRespond(q, code, body) == [q EXCEPT !.pc = "done", !.code = code, !.body = body]

ChatAwait(q, pc) == [q EXCEPT !.pc = pc, !.queries = q.queries + 1]

\* POST /api/chat/conversation up to its SELECT.
PostConversation(r, names) ==
    /\ server.alive /\ req[r].pc = "idle"
    /\ \E sid \in SessionInputs, name \in names :
         LET q == [ChatIdle EXCEPT !.kind = "conversation", !.sessionId = sid,
                                   !.userName = name]
         IN  req' = [req EXCEPT ![r] =
                 IF sid = Undefined THEN ChatRespond(q, 400, "error")
                 ELSE ChatAwait(q, "select")]
    /\ UNCHANGED <<apps, now, sendgridKey, chat, dbUp, server,
                 login, authHits, nodeEnv, credential>>

\* POST /api/chat/message up to its SELECT.
PostMessage(r) ==
    /\ server.alive /\ req[r].pc = "idle"
    /\ \E sid \in SessionInputs, b \in MessageBodies :
         LET q == [ChatIdle EXCEPT !.kind = "message", !.sessionId = sid,
                                   !.senderType = b.senderType, !.message = b.message]
             missing == Undefined \in {sid, b.senderType, b.message}
         IN  /\ missing \/ MessageRoom
             /\ req' = [req EXCEPT ![r] =
                    IF missing THEN ChatRespond(q, 400, "error")
                    ELSE ChatAwait(q, "select")]
    /\ UNCHANGED <<apps, now, sendgridKey, chat, dbUp, server,
                 login, authHits, nodeEnv, credential>>

\* POST /api/chat/admin-reply up to its INSERT.
PostAdminReply(r, callers) ==
    /\ server.alive /\ req[r].pc = "idle"
    /\ \E tok \in callers, id \in ConversationIds, m \in {Undefined, "hello"} :
         LET q == [ChatIdle EXCEPT !.kind = "reply", !.token = tok,
                                   !.conversationId = id, !.message = m]
             missing == id = 0 \/ m = Undefined
         IN  /\ AdminRejects(q) \/ missing \/ MessageRoom
             /\ req' = [req EXCEPT ![r] =
                    IF AuthRejects(q) THEN ChatRespond(q, 401, "error")
                    ELSE IF AdminRejects(q) THEN ChatRespond(q, 403, "error")
                    ELSE IF missing THEN ChatRespond(q, 400, "error")
                    ELSE ChatAwait(q, "insert")]
    /\ UNCHANGED <<apps, now, sendgridKey, chat, dbUp, server,
                 login, authHits, nodeEnv, credential>>

\* PUT /api/chat/conversations/:id/close up to its UPDATE.
PutClose(r, callers) ==
    /\ server.alive /\ req[r].pc = "idle"
    /\ \E tok \in callers, id \in ConversationIds \ {0} :
         LET q == [ChatIdle EXCEPT !.kind = "close", !.token = tok, !.conversationId = id]
         IN  req' = [req EXCEPT ![r] =
                 IF AuthRejects(q) THEN ChatRespond(q, 401, "error")
                 ELSE IF AdminRejects(q) THEN ChatRespond(q, 403, "error")
                 ELSE ChatAwait(q, "update")]
    /\ UNCHANGED <<apps, now, sendgridKey, chat, dbUp, server,
                 login, authHits, nodeEnv, credential>>

\* GET /api/chat/session/:sessionId up to its first SELECT.
GetSession(r) ==
    /\ server.alive /\ req[r].pc = "idle"
    /\ \E sid \in SessionIds :
         req' = [req EXCEPT ![r] =
                    ChatAwait([ChatIdle EXCEPT !.kind = "session", !.sessionId = sid],
                              "select")]
    /\ UNCHANGED <<apps, now, sendgridKey, chat, dbUp, server,
                 login, authHits, nodeEnv, credential>>

\* GET /api/chat/conversations/:id/messages up to its SELECT.
GetMessages(r, callers) ==
    /\ server.alive /\ req[r].pc = "idle"
    /\ \E tok \in callers, id \in ConversationIds \ {0} :
         LET q == [ChatIdle EXCEPT !.kind = "messages", !.token = tok,
                                   !.conversationId = id]
         IN  req' = [req EXCEPT ![r] =
                 IF AuthRejects(q) THEN ChatRespond(q, 401, "error")
                 ELSE IF AdminRejects(q) THEN ChatRespond(q, 403, "error")
                 ELSE ChatAwait(q, "messages")]
    /\ UNCHANGED <<apps, now, sendgridKey, chat, dbUp, server,
                 login, authHits, nodeEnv, credential>>

\* Mutant of SessionSelected: the create handler ignores the conversation
\* it found and goes on to its INSERT.
SessionSelected_AlwaysCreates(q, found) ==
    IF found = {} \/ q.kind = "conversation"
    THEN CASE q.kind = "conversation" -> ChatAwait(q, "insert")
           [] q.kind = "message" -> ChatRespond(q, 404, "error")
           [] OTHER -> ChatRespond(q, 200, "noConversation")
    ELSE LET id == CHOOSE i \in found : \A j \in found : i <= j
         IN  IF q.kind = "message"
             THEN ChatAwait([q EXCEPT !.conversationId = id], "insert")
             ELSE ChatAwait([q EXCEPT !.conversationId = id], "messages")

\* The handlers after SELECT ... FROM chat_conversations WHERE session_id.
SessionSelected(q, found) ==
    IF found = {}
    THEN CASE q.kind = "conversation" -> ChatAwait(q, "insert")
           [] q.kind = "message" -> ChatRespond(q, 404, "error")
           [] OTHER -> ChatRespond(q, 200, "noConversation")
    ELSE LET id == CHOOSE i \in found : \A j \in found : i <= j
         IN  IF q.kind = "message"
             THEN ChatAwait([q EXCEPT !.conversationId = id], "insert")
             ELSE ChatAwait([q EXCEPT !.conversationId = id], "messages")

\* The handlers after SELECT * FROM chat_messages: the response carries the
\* conversation found (none in the admin query) and its messages.
MessagesSelected(q) ==
    [ChatRespond(q, 200, "messages") EXCEPT
        !.conversation = IF q.kind = "messages" THEN 0 ELSE q.conversationId,
        !.messages = MessagesOf(q.conversationId)]

\* INSERT INTO chat_conversations: session_id is UNIQUE; status and
\* last_message_at take their defaults.
NewConversation(q) ==
    [session_id |-> q.sessionId, user_name |-> q.userName, status |-> "active",
     last_message_at |-> now]

\* INSERT INTO chat_messages: created_at takes its default.
NewMessage(q) ==
    [conversation_id |-> q.conversationId,
     sender_type |-> IF q.kind = "reply" THEN "admin" ELSE q.senderType,
     sender_name |-> IF q.kind = "reply" THEN q.token.username ELSE Null,
     created_at |-> now]

\* Mutant of TouchConversation: a message reopens the conversation.
TouchConversation_Reopens(row) ==
    [row EXCEPT !.last_message_at = now, !.status = "active"]

\* UPDATE chat_conversations SET last_message_at = NOW() WHERE id = ?.
TouchConversation(row) == [row EXCEPT !.last_message_at = now]

\* UPDATE chat_conversations SET status = 'closed' WHERE id = ?: a row whose
\* status changes has last_message_at set as well, by the column's
\* ON UPDATE CURRENT_TIMESTAMP.
CloseConversation(row) ==
    IF row.status = "closed" THEN row
    ELSE [row EXCEPT !.status = "closed", !.last_message_at = now]

\* The store answers the query a chat handler awaits, and the handler runs
\* on to its next await or to its response.  A query can be rejected at any
\* time (connection lost, timeout) and is rejected while the database is
\* unreachable; so is an INSERT with a duplicate session_id or with a
\* conversation_id that has no conversation (foreign key).
ChatQuery(r) ==
    /\ server.alive
    /\ req[r].pc \in {"select", "messages", "insert", "update"}
    /\ req[r].kind \in {"conversation", "message", "reply", "close", "session", "messages"}
    /\ \E answered \in (IF dbUp THEN BOOLEAN ELSE {FALSE}) :
       LET q == req[r]
           exists == q.conversationId \in 1..Len(chat.conversations)
       IN  IF ~answered
           THEN /\ req' = [req EXCEPT ![r] = ServerError(q, "unreachable")]
                /\ chat' = chat
           ELSE CASE q.pc = "select" ->
                       /\ req' = [req EXCEPT ![r] =
                              SessionSelected(q, ConversationsOfSession(q.sessionId))]
                       /\ chat' = chat
                  [] q.pc = "messages" ->
                       /\ req' = [req EXCEPT ![r] = MessagesSelected(q)]
                       /\ chat' = chat
                  [] q.pc = "insert" /\ q.kind = "conversation" ->
                       IF ConversationsOfSession(q.sessionId) # {}
                       THEN /\ req' = [req EXCEPT ![r] = ServerError(q, "duplicate")]
                            /\ chat' = chat
                       ELSE /\ chat' = [chat EXCEPT !.conversations =
                                           Append(@, NewConversation(q))]
                            /\ req' = [req EXCEPT ![r] =
                                   [ChatRespond(q, 200, "messages") EXCEPT
                                       !.conversation = Len(chat.conversations) + 1,
                                       !.inserted = Len(chat.conversations) + 1]]
                  [] q.pc = "insert" /\ q.kind # "conversation" ->
                       IF ~exists
                       THEN /\ req' = [req EXCEPT ![r] = ServerError(q, "foreignKey")]
                            /\ chat' = chat
                       ELSE /\ chat' = [chat EXCEPT !.messages = Append(@, NewMessage(q))]
                            /\ req' = [req EXCEPT ![r] =
                                   ChatAwait([q EXCEPT !.inserted = Len(chat.messages) + 1],
                                             "update")]
                  [] OTHER ->
                       /\ chat' = IF exists
                                  THEN [chat EXCEPT !.conversations[q.conversationId] =
                                           IF q.kind = "close" THEN CloseConversation(@)
                                           ELSE TouchConversation(@)]
                                  ELSE chat
                       /\ req' = [req EXCEPT ![r] = ChatRespond(q, 200, "success")]
    /\ UNCHANGED <<apps, now, sendgridKey, dbUp, server,
                 login, authHits, nodeEnv, credential>>

\* The response of a chat request has been sent and the request is over.
ChatFinish(r) ==
    /\ req[r].pc = "done"
    /\ req' = [req EXCEPT ![r] = ChatIdle]
    /\ UNCHANGED <<apps, now, sendgridKey, chat, dbUp, server,
                 login, authHits, nodeEnv, credential>>

\* A second passes on the clock of the store.
ClockTick ==
    /\ now < MaxTime
    /\ now' = now + 1
    /\ UNCHANGED <<apps, req, sendgridKey, chat, dbUp, server,
                 login, authHits, nodeEnv, credential>>

\* The database becomes unreachable, or reachable again.
DatabaseLost ==
    /\ dbUp /\ dbUp' = FALSE
    /\ UNCHANGED <<apps, now, req, sendgridKey, chat, server,
                 login, authHits, nodeEnv, credential>>
DatabaseBack ==
    /\ ~dbUp /\ dbUp' = TRUE
    /\ UNCHANGED <<apps, now, req, sendgridKey, chat, server,
                 login, authHits, nodeEnv, credential>>

\* The chat tables empty, the process running.
InitChat ==
    /\ apps = [t \in Types |-> <<>>]
    /\ now = 0
    /\ req = [r \in Slots |-> ChatIdle]
    /\ sendgridKey = FALSE
    /\ chat = NoChat /\ dbUp = TRUE /\ server = Running
    /\ NoAccounts

\* The chat endpoints, one request at a time.
NextChat ==
    \/ PostConversation("r1", {"ann"})
    \/ PostMessage("r1")
    \/ PostAdminReply("r1", {Alice, Admin})
    \/ PutClose("r1", {Alice, Admin})
    \/ GetSession("r1")
    \/ GetMessages("r1", {NoToken, Admin})
    \/ ChatQuery("r1")
    \/ ChatFinish("r1")
    \/ ClockTick

SpecChat == InitChat /\ [][NextChat]_vars

\* Get-or-create of a conversation and the session query, one request at a
\* time, under either visitor name.
NextConversation ==
    \/ PostConversation("r1", UserNames)
    \/ GetSession("r1")
    \/ ChatQuery("r1")
    \/ ChatFinish("r1")
    \/ ClockTick

SpecConversation == InitChat /\ [][NextConversation]_vars

\* Create-conversation requests of two visitors that overlap freely.
NextChatRace ==
    \/ \E r \in Slots :
         \/ PostConversation(r, UserNames)
         \/ ChatQuery(r)
         \/ ChatFinish(r)
    \/ ClockTick

SpecChatRace == InitChat /\ [][NextChatRace]_vars

\* Conversations that are created, written to by visitors and
\* administrators, and closed, one request at a time.
NextClosing ==
    \/ PostConversation("r1", {"ann"})
    \/ PostMessage("r1")
    \/ PostAdminReply("r1", {Admin})
    \/ PutClose("r1", {Admin})
    \/ ChatQuery("r1")
    \/ ChatFinish("r1")

SpecClosing == InitChat /\ [][NextClosing]_vars

\* ---------------------------------------------------------------- accounts

\* max of authLimiter: the requests one IP may make to /api/login and
\* /api/signup together in one window.
AuthMax == 5
\* The limiter counts at most MaxHits requests in one window of the model.
MaxHits == 7

\* username and password of a signup or login body.
AccountNames == {Undefined, "ann", "Ann", "admin"}
PasswordInputs == {"Passw0rd!", "weak"}

\* normalizeEmail of the validators, on the usernames of the model.
normalizeEmail(u) == ToLowerCase(u)

\* signupValidation and loginValidation: the username is an e-mail address;
\* a signup password has 8 characters of all four classes, a login password
\* is not empty.
SignupInvalid(u, pw) == u = Undefined \/ pw = "weak"
LoginInvalid(u, pw) == u = Undefined

\* bcrypt.hash and bcrypt.compare.
BcryptHash(pw) == [hash |-> pw]
BcryptCompare(pw, h) == h.hash = pw

\* String.prototype.includes('admin') on the usernames of the model.
IncludesAdmin(u) == u \in {"admin", "admin2"}

\* Mutant of LoginRowsOf: the username column has no index that finds
\* an existing row (no UNIQUE key).
LoginRowsOf_NoUniqueKey(u) == {}

\* The rows of login whose username equals u: what SELECT * FROM login
\* WHERE username = ? finds and what the UNIQUE key on username refuses.
LoginRowsOf(u) == {i \in 1..Len(login) : SqlEq(login[i].username, u)}

\* Mutant of AuthLimited: the limiter is mounted in production only, like
\* the general one.
AuthLimited_ProductionOnly(hit) == nodeEnv = "production" /\ hit > AuthMax

\* authLimiter: a request is refused once the count of its window exceeds
\* max.
AuthLimited(hit) == hit > AuthMax

\* A request to /api/signup or /api/login up to the handler's first await.
\* In production the general limiter comes first; its count includes the
\* client's requests to every other /api/ route, so it may refuse any
\* request.  authLimiter then counts the request (req.rateLimit.current) and
\* refuses it or passes it on to the validators and the handler.
AccountRequest(r, kind) ==
    /\ server.alive /\ req[r].pc = "idle"
    /\ authHits < MaxHits
    /\ \E u \in AccountNames, pw \in PasswordInputs,
          general \in (IF nodeEnv = "production" THEN BOOLEAN ELSE {FALSE}) :
         LET q == [Idle EXCEPT !.kind = kind, !.password = pw,
                               !.username = IF u = Undefined THEN u ELSE normalizeEmail(u)]
             counted == [q EXCEPT !.hit = authHits + 1]
             invalid == IF kind = "signup" THEN SignupInvalid(u, pw) ELSE LoginInvalid(u, pw)
         IN  IF general
             THEN /\ req' = [req EXCEPT ![r] = Respond(q, 429, "error", {})]
                  /\ authHits' = authHits
             ELSE /\ authHits' = authHits + 1
                  /\ req' = [req EXCEPT ![r] =
                         IF AuthLimited(counted.hit) THEN Respond(counted, 429, "error", {})
                         ELSE IF invalid THEN Respond(counted, 400, "error", {})
                         ELSE IF kind = "signup" THEN [counted EXCEPT !.pc = "bcrypt"]
                         ELSE Await(counted, "loginSelect")]
    /\ UNCHANGED <<apps, now, sendgridKey, chat, dbUp, server,
                 login, nodeEnv, credential>>

PostSignup(r) == AccountRequest(r, "signup")
PostLogin(r) == AccountRequest(r, "login")

\* The payload of the token that signup and login sign.
SignupToken(u) == Claims(u, FALSE)
LoginToken(user) == Claims(user.username, IncludesAdmin(user.username))

\* bcrypt settles: the signup handler goes on to its INSERT; the login
\* handler answers 401 on a mismatch and signs the token otherwise.
BcryptSettled(r) ==
    /\ req[r].pc = "bcrypt"
    /\ LET q == req[r]
       IN  req' = [req EXCEPT ![r] =
               IF q.kind = "signup" THEN Await(q, "loginInsert")
               ELSE IF BcryptCompare(q.password, q.rows[1].password)
               THEN Respond([q EXCEPT !.issued = LoginToken(q.rows[1])], 200, "success", {})
               ELSE Respond(q, 401, "error", {})]
    /\ UNCHANGED <<apps, now, sendgridKey, chat, dbUp, server,
                 login, authHits, nodeEnv, credential>>

\* The signup handler's catch block on ER_DUP_ENTRY.
DuplicateAnswer(q) == Respond(q, 409, "error", {})

\* The store answers the query of a signup or login handler; it can reject
\* any query (500).  INSERT INTO login fails with ER_DUP_ENTRY when the
\* UNIQUE username exists.
AccountQuery(r) ==
    /\ server.alive
    /\ req[r].pc \in {"loginInsert", "loginSelect"}
    /\ \E answered \in (IF dbUp THEN BOOLEAN ELSE {FALSE}) :
       LET q == req[r]
           found == LoginRowsOf(ToLowerCase(q.username))
       IN  IF ~answered
           THEN /\ req' = [req EXCEPT ![r] = Respond(q, 500, "error", {})]
                /\ login' = login
           ELSE IF q.pc = "loginInsert"
           THEN IF found # {}
                THEN /\ req' = [req EXCEPT ![r] = DuplicateAnswer(q)]
                     /\ login' = login
                ELSE /\ login' = Append(login, [username |-> ToLowerCase(q.username),
                                                password |-> BcryptHash(q.password)])
                     /\ req' = [req EXCEPT ![r] =
                            Respond([q EXCEPT !.written = TRUE, !.id = Len(login) + 1,
                                              !.issued = SignupToken(ToLowerCase(q.username))],
                                    200, "success", {})]
           ELSE /\ login' = login
                /\ req' = [req EXCEPT ![r] =
                       IF found = {} THEN Respond(q, 401, "error", {})
                       ELSE [q EXCEPT !.pc = "bcrypt",
                                      !.rows = <<login[CHOOSE i \in found : TRUE]>>]]
    /\ UNCHANGED <<apps, now, sendgridKey, chat, dbUp, server,
                 authHits, nodeEnv, credential>>

\* The window of authLimiter ends and its count starts again.
WindowExpires ==
    /\ authHits > 0
    /\ authHits' = 0
    /\ UNCHANGED <<apps, now, req, sendgridKey, chat, dbUp, server,
                 login, nodeEnv, credential>>

\* An empty login table, in production or not.
InitAccounts ==
    /\ apps = [t \in Types |-> <<>>]
    /\ now = 0
    /\ req = [r \in Slots |-> Idle]
    /\ sendgridKey = FALSE
    /\ chat = NoChat /\ dbUp = TRUE /\ server = Running
    /\ login = <<>> /\ authHits = 0 /\ credential = NoCredential
    /\ nodeEnv \in {"production", "development"}

\* Signups and logins of one client, one request at a time.
NextAccounts ==
    \/ PostSignup("r1")
    \/ PostLogin("r1")
    \/ BcryptSettled("r1")
    \/ AccountQuery("r1")
    \/ Finish("r1")
    \/ WindowExpires

SpecAccounts == InitAccounts /\ [][NextAccounts]_vars

\* Signups that overlap freely.
NextSignupRace ==
    \E r \in Slots :
        \/ PostSignup(r)
        \/ BcryptSettled(r)
        \/ AccountQuery(r)
        \/ Finish(r)

SpecSignupRace == Init /\ [][NextSignupRace]_vars

\* ------------------------------------------------------------ process start

\* The process as node starts it: initDB() has been called at module load
\* and app.listen has been called; neither initDB call has settled.
Starting == [alive |-> TRUE, startInit |-> "pending", listenInit |-> "pending"]

\* The initDB() of module load settles: a rejection reaches its catch, which
\* logs it and calls process.exit(1).
StartInitSettled ==
    /\ server.alive /\ server.startInit = "pending"
    /\ \E answered \in (IF dbUp THEN BOOLEAN ELSE {FALSE}) :
         server' = IF answered
                   THEN [server EXCEPT !.startInit = "ok"]
                   ELSE [server EXCEPT !.startInit = "failed", !.alive = FALSE]
    /\ UNCHANGED <<apps, now, req, sendgridKey, chat, dbUp,
                 login, authHits, nodeEnv, credential>>

\* The initDB() awaited in the app.listen callback settles: a rejection is
\* caught and logged, and the process goes on.
ListenInitSettled ==
    /\ server.alive /\ server.listenInit = "pending"
    /\ \E answered \in (IF dbUp THEN BOOLEAN ELSE {FALSE}) :
         server' = [server EXCEPT !.listenInit = IF answered THEN "ok" ELSE "failed"]
    /\ UNCHANGED <<apps, now, req, sendgridKey, chat, dbUp,
                 login, authHits, nodeEnv, credential>>

\* GET /api/health: answered by the running process without a query.
GetHealth(r) ==
    /\ server.alive /\ req[r].pc = "idle"
    /\ req' = [req EXCEPT ![r] =
                  ChatRespond([ChatIdle EXCEPT !.kind = "health"], 200, "ok")]
    /\ UNCHANGED <<apps, now, sendgridKey, chat, dbUp, server,
                 login, authHits, nodeEnv, credential>>

\* The process starts with the database reachable or not.
InitBoot ==
    /\ apps = [t \in Types |-> <<>>]
    /\ now = 0
    /\ req = [r \in Slots |-> ChatIdle]
    /\ sendgridKey = FALSE
    /\ chat = NoChat
    /\ dbUp \in BOOLEAN
    /\ server = Starting
    /\ NoAccounts

\* The start of the process and the requests it serves meanwhile and
\* afterwards, while the database comes and goes.
NextBoot ==
    \/ StartInitSettled
    \/ ListenInitSettled
    \/ DatabaseLost
    \/ DatabaseBack
    \/ GetHealth("r1")
    \/ PostConversation("r1", {"ann"})
    \/ GetSession("r1")
    \/ ChatQuery("r1")
    \/ ChatFinish("r1")

SpecBoot == InitBoot /\ [][NextBoot]_vars

\* ------------------------------------------------------------------ claims

\* The request of slot r is an administrator's status update that the
\* handler accepted (not answered 400) and that addresses an existing row.
RowExists(t, id) == id \in 1..Len(apps[t])
AdminStatusUpdate(q) ==
    /\ q.kind = "status"
    /\ q.token.valid /\ q.token.isAdmin
    /\ q.status \in ValidStatuses(q.type)

\* The allowed status set of each type as the specification gives it.
ClaimedStatuses(t) ==
    IF t = "travel"
    THEN {"pending", "under_review", "approved", "denied", "shipped", "issued", "collected"}
    ELSE {"pending", "under_review", "approved", "denied", "shipped"}

\* C1 (as claimed): when the store executes the UPDATE of an administrator's
\* valid status update on an existing application, the application's
\* statusHistory becomes exactly one entry longer and the new last entry's
\* previousStatus is the status the application had before.
C1_HistoryGrowsByOne ==
    [][\A r \in Slots :
          LET q == req[r]
          IN  (/\ q.pc = "update" /\ req'[r].pc # "update"
               /\ AdminStatusUpdate(q)
               /\ RowExists(q.type, q.id))
              => LET before == apps[q.type][q.id]
                     after == apps'[q.type][q.id]
                 IN  /\ Len(HistoryOf(after)) = Len(HistoryOf(before)) + 1
                     /\ PreviousStatusOf(HistoryOf(after)[Len(HistoryOf(after))])
                            = before.status]_vars

\* C2: a status update whose status is missing or outside the type's allowed
\* set ends at once without a store query and leaves every application (and
\* the clock behind updatedAt) unchanged; an administrator is answered 400.
C2_InvalidStatusRejected ==
    [][\A r \in Slots :
          (/\ req[r].pc = "idle" /\ req'[r].pc # "idle"
           /\ req'[r].kind = "status"
           /\ req'[r].status \notin ClaimedStatuses(req'[r].type))
          => /\ req'[r].pc = "done"
             /\ req'[r].queries = 0
             /\ apps' = apps /\ now' = now
             /\ (req'[r].token.valid /\ req'[r].token.isAdmin) => req'[r].code = 400
             /\ req'[r].code \in {400, 401, 403}]_vars

\* C2 witness: an administrator's status update with a status outside the
\* set, addressed to an existing application, has been answered 400.
C2_Witness ==
    /\ req["r1"].pc = "done" /\ req["r1"].kind = "status" /\ req["r1"].code = 400
    /\ req["r1"].token = Admin
    /\ req["r1"].status = "issued" /\ req["r1"].type = "visa"
    /\ RowExists("visa", req["r1"].id)

\* The caller of a read request is authenticated, is no administrator and
\* does not own the requested data: the addressed row exists and belongs to
\* somebody else (detail, PDF), or the list is asked for another username.
NonOwnerRead(q) ==
    /\ q.kind \in {"detail", "pdf", "list"}
    /\ q.token.valid /\ ~q.token.isAdmin
    /\ IF q.kind = "list"
       THEN ~SqlEq(q.username, q.token.username)
       ELSE RowExists(q.type, q.id) /\ apps[q.type][q.id].user_name # q.token.username

C4_OnlyAdminMutates ==
    [][/\ \A t \in Types : \A i \in 1..Len(apps[t]) :
            (\/ apps'[t][i].status # apps[t][i].status
             \/ apps'[t][i].tracking_number # apps[t][i].tracking_number
             \/ apps'[t][i].shipping_carrier # apps[t][i].shipping_carrier)
            => \E r \in Slots :
                   /\ req[r].pc = "update" /\ req'[r].pc # "update"
                   /\ req[r].type = t /\ req[r].id = i
                   /\ req[r].token.valid /\ req[r].token.isAdmin
       /\ \A r \in Slots :
            (/\ req[r].pc = "idle" /\ req'[r].pc # "idle"
             /\ req'[r].kind \in {"status", "tracking"}
             /\ req'[r].token.valid /\ ~req'[r].token.isAdmin)
            => /\ req'[r].pc = "done" /\ req'[r].code = 403
               /\ req'[r].queries = 0
               /\ apps' = apps /\ now' = now]_vars

\* C4 witness: alice (no administrator) has asked for a valid status update
\* of her own existing application and has been answered 403.
C4_Witness ==
    /\ req["r1"].pc = "done" /\ req["r1"].kind = "status" /\ req["r1"].token = Alice
    /\ req["r1"].status = "approved"
    /\ RowExists(req["r1"].type, req["r1"].id)
    /\ req["r1"].code = 403

\* C5 (as claimed): an administrator's valid status update for an id that
\* does not exist is answered 404 and reports no success.
C5_MissingIdIs404 ==
    \A r \in Slots :
        LET q == req[r]
        IN  (q.pc = "done" /\ AdminStatusUpdate(q) /\ ~RowExists(q.type, q.id))
            => (q.code = 404 /\ q.body # "success")

\* C6 (as claimed): an administrator's valid status update of an existing
\* application succeeds and persists the new status whatever text the
\* status_history column holds.
C6_CorruptHistoryNeverBlocks ==
    \A r \in Slots :
        LET q == req[r]
        IN  (q.pc = "done" /\ AdminStatusUpdate(q) /\ RowExists(q.type, q.id))
            => (q.code = 200 /\ apps[q.type][q.id].status = q.status)

\* C7: a request whose notification send failed is still answered with
\* success, what it persisted is still in the store, and it attempted the
\* send once; no request ever attempts more than one send.
C7_MailFailureSwallowed ==
    \A r \in Slots :
        LET q == req[r]
        IN  /\ q.sends <= 1
            /\ (q.pc = "done" /\ q.mailResult = "failed")
               => /\ q.code = 200 /\ q.body = "success"
                  /\ q.sends = 1
                  /\ q.written
                  /\ q.kind = "status"
                     => /\ apps[q.type][q.id].status = q.status
                        /\ apps[q.type][q.id].status_history = JSONstringify(q.statusHistory)
                  /\ q.kind = "tracking"
                     => /\ apps[q.type][q.id].tracking_number = SqlString(Trim(q.trackingNumber.s))
                        /\ apps[q.type][q.id].shipping_carrier
                               = (IF q.carrier = Undefined THEN Null ELSE q.carrier)

\* C7 witness: the notification of a status update failed.
C7_Witness ==
    /\ req["r1"].pc = "done" /\ req["r1"].kind = "status"
    /\ req["r1"].mailResult = "failed"

\* C8 (as claimed): every status update that persisted a new status has
\* attempted, after the write, a notification addressed to the owner; a
\* rejected request has attempted none.
C8_EveryUpdateNotifies ==
    \A r \in Slots :
        LET q == req[r]
        IN  /\ (q.pc = "done" /\ q.kind = "status" /\ q.written)
               => (q.sends = 1 /\ q.mailTo = apps[q.type][q.id].user_name)
            /\ q.sends > 0 => q.written
            /\ (q.pc = "done" /\ q.code \in {400, 403, 404}) => q.sends = 0

\* Both slots hold a completed, successful status update of the same
\* existing application.
BothUpdated ==
    /\ req["r1"].pc = "done" /\ req["r2"].pc = "done"
    /\ AdminStatusUpdate(req["r1"]) /\ AdminStatusUpdate(req["r2"])
    /\ req["r1"].code = 200 /\ req["r2"].code = 200
    /\ req["r1"].type = req["r2"].type /\ req["r1"].id = req["r2"].id
    /\ RowExists(req["r1"].type, req["r1"].id)

\* Both requests read the same version of the row: neither SELECT saw the
\* other's UPDATE, so the two requests overlapped.
ReadSameRow == req["r1"].rows # <<>> /\ req["r1"].rows = req["r2"].rows

\* C9: after two administrators' status updates of the same existing
\* application to different statuses have both completed, in any
\* interleaving, the persisted status is one of the two.
C9_OneOfTheTwo ==
    (BothUpdated /\ req["r1"].status # req["r2"].status)
    => apps[req["r1"].type][req["r1"].id].status \in {req["r1"].status, req["r2"].status}

\* C9 witness: the two updates overlapped (both read the row before either
\* wrote) and both have completed.
C9_Witness ==
    /\ BothUpdated /\ ReadSameRow
    /\ req["r1"].status # req["r2"].status
    /\ req["r1"].type = "visa"

\* C10: when two status updates of the same visa or travel-pass application
\* have read the same history and both completed with success, the stored
\* history is the history of exactly one of them: one entry longer than what
\* both read, the other request's entry missing.
C10_LostUpdate ==
    (BothUpdated /\ ReadSameRow)
    => LET row == apps[req["r1"].type][req["r1"].id]
       IN  /\ Len(HistoryOf(row)) = Len(HistoryOf(req["r1"].rows[1])) + 1
           /\ HistoryOf(row) \in {req["r1"].statusHistory, req["r2"].statusHistory}

\* C10 witness: both administrators were answered success and the entry of
\* the first is not in the stored history.
C10_Witness ==
    /\ BothUpdated /\ ReadSameRow
    /\ req["r1"].type = "visa"
    /\ LET h == HistoryOf(apps["visa"][req["r1"].id])
       IN  /\ h = req["r2"].statusHistory
           /\ \A i \in 1..Len(h) : h[i].changedBy # "admin"

\* s is a prefix of t.
IsPrefix(s, t) == Len(s) <= Len(t) /\ \A i \in 1..Len(s) : t[i] = s[i]

\* C11: with one request at a time, every step (status update, tracking
\* assignment, creation, any response) leaves the statusHistory of every
\* application a prefix of what it is afterwards: entries are never removed,
\* changed or reordered, and an entry is only ever added at the tail.
C11_HistoryAppendOnly ==
    [][\A t \in Types : \A i \in 1..Len(apps[t]) :
          /\ i <= Len(apps'[t])
          /\ IsPrefix(HistoryOf(apps[t][i]), HistoryOf(apps'[t][i]))
          /\ Len(HistoryOf(apps'[t][i])) <= Len(HistoryOf(apps[t][i])) + 1]_vars

\* C11 witness: a second status update of a visa application has been
\* stored behind the first one, the tracking number assigned or not.
C11_Witness ==
    \E i \in 1..Len(apps["visa"]) :
        LET h == HistoryOf(apps["visa"][i])
        IN  /\ Len(h) = 2
            /\ h[1].previousStatus = "pending"
            /\ h[2].previousStatus = h[1].status

\* C12 (as claimed): an administrator's status update is answered 400
\* exactly when its status is outside the set the specification gives for
\* the type (five statuses, plus issued and collected for travel-pass).
C12_AcceptedSetAsClaimed ==
    \A r \in Slots :
        LET q == req[r]
        IN  (q.pc = "done" /\ q.kind = "status" /\ q.token.valid /\ q.token.isAdmin)
            => (q.code = 400 <=> q.status \notin ClaimedStatuses(q.type))

\* C13 (as claimed): an administrator's status update to any status of the
\* type's allowed set, on an existing application in any status, is answered
\* with success and leaves the application in the requested status.
C13_AnyTransitionSucceeds ==
    \A r \in Slots :
        LET q == req[r]
        IN  (/\ q.pc = "done" /\ q.kind = "status"
             /\ q.token.valid /\ q.token.isAdmin
             /\ q.status \in ClaimedStatuses(q.type)
             /\ RowExists(q.type, q.id))
            => (q.code = 200 /\ apps[q.type][q.id].status = q.status)

\* C14 (as claimed): a tracking assignment whose trackingNumber is missing,
\* not a string, empty or only whitespace is answered 400 by an
\* administrator's request, and the tracking number of every application is
\* null or a non-empty string.
C14_TrackingNeverBlank ==
    /\ \A t \in Types : \A i \in 1..Len(apps[t]) :
          apps[t][i].tracking_number.ty = "string" => apps[t][i].tracking_number.s # <<>>
    /\ \A r \in Slots :
          LET q == req[r]
          IN  (/\ q.pc = "done" /\ q.kind = "tracking"
               /\ q.token.valid /\ q.token.isAdmin
               /\ (q.trackingNumber.ty # "string" \/ Trim(q.trackingNumber.s) = <<>>))
              => q.code = 400

\* C15: the UPDATE of a tracking assignment changes, of the whole store,
\* only tracking_number, shipping_carrier and updated_at of the addressed
\* application: its status and statusHistory and every other application
\* are as before.
C15_TrackingFrame ==
    [][\A r \in Slots :
          LET q == req[r]
          IN  (q.pc = "update" /\ req'[r].pc # "update" /\ q.kind = "tracking")
              => \A t \in Types :
                    /\ Len(apps'[t]) = Len(apps[t])
                    /\ \A i \in 1..Len(apps[t]) :
                          IF t = q.type /\ i = q.id
                          THEN /\ apps'[t][i].status = apps[t][i].status
                               /\ apps'[t][i].status_history = apps[t][i].status_history
                               /\ apps'[t][i].user_name = apps[t][i].user_name
                          ELSE apps'[t][i] = apps[t][i]]_vars

\* C15 witness: a tracking number was assigned to an application whose
\* status had been changed before, and the history entry is still there.
C15_Witness ==
    /\ req["r1"].pc = "done" /\ req["r1"].kind = "tracking" /\ req["r1"].written
    /\ LET row == apps[req["r1"].type][req["r1"].id]
       IN  /\ row.tracking_number = SqlString(<<"T">>)
           /\ row.status # "pending"
           /\ Len(HistoryOf(row)) = 1

\* C16: with one request at a time, a create-conversation request that is
\* answered with success returns the id of the one conversation of its
\* session id, whether it created the row or found it (so two calls in
\* sequence return the same id); it is answered 500 only when the store
\* rejected a query as unreachable; and no session id ever has two rows.
C16_GetOrCreateIdempotent ==
    /\ \A sid \in SessionIds : Cardinality(ConversationsOfSession(sid)) <= 1
    /\ \A r \in Slots :
          LET q == req[r]
          IN  (q.pc = "done" /\ q.kind = "conversation")
              => /\ q.code \in {200, 400, 500}
                 /\ q.code = 200 => ConversationsOfSession(q.sessionId) = {q.conversation}
                 /\ q.code = 400 => q.sessionId = Undefined
                 /\ q.code = 500 => q.rejected = "unreachable"

\* C16 witness: a second create-conversation call for a session id, made
\* under another user name, returned the conversation the first call made.
C16_Witness ==
    /\ req["r1"].pc = "done" /\ req["r1"].kind = "conversation"
    /\ req["r1"].code = 200 /\ req["r1"].inserted = 0
    /\ req["r1"].conversation \in 1..Len(chat.conversations)
    /\ chat.conversations[req["r1"].conversation].user_name # req["r1"].userName

\* C17 (as claimed): two create-conversation requests for the same session
\* id that have both completed without the store being unreachable were
\* both answered with success and the same conversation id, and the session
\* id has exactly one row.
C17_ConcurrentGetOrCreate ==
    LET a == req["r1"]
        b == req["r2"]
    IN  (/\ a.pc = "done" /\ b.pc = "done"
         /\ a.kind = "conversation" /\ b.kind = "conversation"
         /\ a.sessionId # Undefined /\ a.sessionId = b.sessionId
         /\ a.rejected # "unreachable" /\ b.rejected # "unreachable")
        => /\ a.code = 200 /\ b.code = 200
           /\ a.conversation = b.conversation
           /\ Cardinality(ConversationsOfSession(a.sessionId)) = 1

\* C18 (as claimed): the UPDATE of a close request leaves chat_messages as
\* it is and changes nothing in chat_conversations but the status of the
\* addressed conversation, which becomes closed; and a session query or
\* admin message query that completes returns the conversation's messages
\* in order, closed or not.
C18_CloseOnlyFlipsStatus ==
    [][\A r \in Slots :
          LET q == req[r]
          IN  /\ (q.pc = "update" /\ q.kind = "close" /\ req'[r].pc = "done")
                 => /\ chat'.messages = chat.messages
                    /\ Len(chat'.conversations) = Len(chat.conversations)
                    /\ \A i \in 1..Len(chat.conversations) :
                          chat'.conversations[i] =
                              IF i = q.conversationId /\ req'[r].code = 200
                              THEN [chat.conversations[i] EXCEPT !.status = "closed"]
                              ELSE chat.conversations[i]
              /\ (q.pc = "messages" /\ req'[r].pc = "done" /\ req'[r].code = 200)
                 => req'[r].messages = MessagesOf(q.conversationId)]_vars

\* C19 (as claimed): once a visitor message or admin reply request has
\* completed, with whatever response, no stored message is newer than the
\* last_message_at of its conversation.
C19_LastMessageAtCurrent ==
    \A r \in Slots :
        (req[r].pc = "done" /\ req[r].kind \in {"message", "reply"})
        => \A m \in 1..Len(chat.messages) :
              chat.messages[m].created_at
                  <= chat.conversations[chat.messages[m].conversation_id].last_message_at

\* C20 (as claimed): whatever the database does, at process start or
\* later, the process that answers GET /api/health is running, and every
\* health request is answered 200 {status: "ok"} without a store query.
C20_HealthAlwaysAnswers ==
    /\ server.alive
    /\ \A r \in Slots :
          (req[r].pc = "done" /\ req[r].kind = "health")
          => (req[r].code = 200 /\ req[r].body = "ok" /\ req[r].queries = 0)

\* C21 (as claimed): a handler has issued a store query only when a schema
\* initialization (initDB) of this process has completed successfully.
C21_SchemaBeforeRequests ==
    \A r \in Slots :
        req[r].queries > 0 => (server.startInit = "ok" \/ server.listenInit = "ok")

\* C29 (as claimed): a chat message whose sender_type is admin is stored
\* only by the admin-reply operation of a caller with a verified
\* administrator token, never by the unauthenticated message operation.
C29_AdminMessagesByAdmins ==
    [][\A r \in Slots :
          (/\ req'[r] # req[r]
           /\ Len(chat'.messages) = Len(chat.messages) + 1
           /\ chat'.messages[Len(chat'.messages)].sender_type = "admin")
          => (/\ req[r].kind = "reply"
              /\ req[r].token.valid /\ req[r].token.isAdmin)]_vars

\* A message or admin-reply request that has been answered, whose
\* conversation exists and is closed, and that was not stopped by a missing
\* field or by the store rejecting a query.
AnsweredOnClosed(r) ==
    /\ req[r].pc = "done" /\ req[r].kind \in {"message", "reply"}
    /\ req[r].code # 400 /\ req[r].rejected = "none"
    /\ req[r].conversationId \in 1..Len(chat.conversations)
    /\ chat.conversations[req[r].conversationId].status = "closed"

\* C30: a closed conversation stays closed at every step (message append,
\* admin reply, create-conversation with its session id, close again), and
\* a message or admin reply to a closed conversation is answered 200 and
\* its row is stored under that conversation.
C30_ClosedIsAbsorbing ==
    [][/\ \A i \in 1..Len(chat.conversations) :
             chat.conversations[i].status = "closed"
             => (/\ i <= Len(chat'.conversations)
                 /\ chat'.conversations[i].status = "closed")
       /\ \A r \in Slots :
             AnsweredOnClosed(r)
             => (/\ req[r].code = 200
                 /\ req[r].inserted \in 1..Len(chat.messages)
                 /\ chat.messages[req[r].inserted].conversation_id
                       = req[r].conversationId)]_vars

\* A message or reply has been stored in a conversation that was closed
\* before, next to a message of the other kind of sender.
C30_Witness ==
    /\ AnsweredOnClosed("r1") /\ req["r1"].code = 200
    /\ \E m \in 1..Len(chat.messages) :
          /\ m < req["r1"].inserted
          /\ chat.messages[m].conversation_id = req["r1"].conversationId
          /\ chat.messages[m].sender_type # chat.messages[req["r1"].inserted].sender_type

\* C28: for visa and travel-pass applications, under any interleaving of
\* status updates and tracking assignments, a stored statusHistory that is
\* a non-empty list ends with an entry whose status is the row's status.
C28_HistoryEndsAtStatus ==
    \A t \in {"visa", "travel"} :
        \A i \in 1..Len(apps[t]) :
            LET h == HistoryOf(apps[t][i])
            IN  Len(h) > 0 => h[Len(h)].status = apps[t][i].status

\* A status update and a tracking assignment of the same visa or
\* travel-pass application overlapped and both were written: the status
\* handler read the row before the tracking number was stored.
C28_Witness ==
    \E r \in Slots, s \in Slots :
        /\ req[r].pc = "done" /\ req[r].kind = "status" /\ req[r].written
        /\ req[s].pc = "done" /\ req[s].kind = "tracking" /\ req[s].written
        /\ req[r].type \in {"visa", "travel"}
        /\ req[s].type = req[r].type /\ req[s].id = req[r].id
        /\ req[r].rows # <<>> /\ req[r].rows[1].tracking_number = SqlNull
        /\ apps[req[r].type][req[r].id].tracking_number # SqlNull
        /\ Len(HistoryOf(apps[req[r].type][req[r].id])) > 0

\* C27: for every application type, the row a create request inserts has
\* the username of the caller's verified token as its user_name, and no
\* step (status update, tracking assignment, read) changes the user_name
\* of a stored row.
C27_OwnerIsTokenUser ==
    [][/\ \A t \in Types :
             \A i \in 1..Len(apps[t]) :
                 /\ i <= Len(apps'[t])
                 /\ apps'[t][i].user_name = apps[t][i].user_name
       /\ \A r \in Slots :
             (req[r].kind = "create" /\ req[r].pc = "insert" /\ req'[r].written)
             => (/\ req[r].token.valid
                 /\ Len(apps'[req[r].type]) = Len(apps[req[r].type]) + 1
                 /\ apps'[req[r].type][req'[r].id].user_name
                       = req[r].token.username)]_vars

\* An application created by alice has since had its status updated and a
\* tracking number assigned by an administrator.
C27_Witness ==
    \E t \in Types :
        /\ Len(apps[t]) > 0
        /\ apps[t][1].user_name = "alice"
        /\ apps[t][1].status # "pending"
        /\ apps[t][1].tracking_number # SqlNull
        /\ req["r1"].pc = "done" /\ req["r1"].token = Admin /\ req["r1"].written

\* C25 (as claimed): a /pdf request whose barcode generation or rendering
\* failed is answered 500, and an error response is never sent on a
\* response that the PDF headers and stream have been started on.
C25_OneResponsePerPdf ==
    \A r \in Slots :
        (req[r].pc = "done" /\ req[r].kind = "pdf" /\ req[r].piped)
        => (req[r].code = 200 /\ req[r].body = "pdf")

\* A token signed with the server's key and not expired.
ValidRawToken(t) == t.form = "jwt" /\ t.key = "JWT_SECRET" /\ ~t.expired

\* The client sends no token, or only tokens whose signature or expiry is
\* invalid, in its Authorization header and its cookie.
CarriesNoValidToken ==
    /\ ~ValidRawToken(credential.authorization.token)
    /\ ~ValidRawToken(credential.cookie)

\* C22: a request to a guarded endpoint that carries no token, or a token
\* whose signature or expiry is invalid, is answered 401 before any store
\* query is issued for it and without any row being written.
C22_NoTokenIs401 ==
    CarriesNoValidToken
    => /\ \A r \in Slots :
             req[r].pc # "idle"
             => (/\ req[r].pc = "done" /\ req[r].code = 401
                 /\ req[r].queries = 0 /\ ~req[r].written)
       /\ apps = [u \in Types |-> IF u = "visa" THEN <<NewRow("alice", 1)>> ELSE <<>>]

\* A status update that carried an expired administrator token in its
\* header and an expired one in its cookie has been answered 401.
C22_Witness ==
    /\ credential.authorization = [scheme |-> "Bearer", token |-> Expired(generateToken(Admin))]
    /\ credential.cookie = Expired(generateToken(Admin))
    /\ req["r1"].pc = "done" /\ req["r1"].kind = "status" /\ req["r1"].code = 401

\* C23 (as claimed): every token the server issues, at signup or at login,
\* carries isAdmin = TRUE exactly when its username contains "admin".
C23_AdminFlagBySubstring ==
    \A r \in Slots :
        req[r].issued.valid
        => (req[r].issued.isAdmin = IncludesAdmin(req[r].issued.username))

\* No two rows of the login table have the same lower-cased username.
UniqueUsernames(table) ==
    \A i, j \in 1..Len(table) :
        i # j => ToLowerCase(table[i].username) # ToLowerCase(table[j].username)

\* The table holds a user whose lower-cased username is that of request q.
UserExists(q) ==
    \E i \in 1..Len(login) : ToLowerCase(login[i].username) = ToLowerCase(q.username)

\* C24: at most one user exists per lower-cased username; a signup whose
\* INSERT the store answers is answered 409 and leaves the table unchanged
\* when the username exists, and 200 with the user added when it does not;
\* so of two signups with one username that reach their INSERT,
\* overlapping or not, at most one is answered 200.  (A query the store
\* rejects is answered 500.)
C24_OneUserPerUsername ==
    [][/\ UniqueUsernames(login')
       /\ \A r \in Slots :
             (req[r].pc = "loginInsert" /\ req'[r].pc = "done" /\ req'[r].code # 500)
             => IF UserExists(req[r])
                THEN req'[r].code = 409 /\ login' = login
                ELSE /\ req'[r].code = 200
                     /\ Len(login') = Len(login) + 1
                     /\ login'[Len(login')].username = ToLowerCase(req[r].username)
       /\ \A r, s \in Slots :
             (/\ r # s
              /\ req'[r].pc = "done" /\ req'[r].kind = "signup" /\ req'[r].code = 200
              /\ req'[s].pc = "done" /\ req'[s].kind = "signup"
              /\ req'[s].username = req'[r].username
              /\ req'[s].queries > 0)
             => req'[s].code \in {409, 500}]_vars

\* Two signups with one username overlapped: the one that arrived second
\* inserted the user, the one that arrived first was answered 409.
C24_Witness ==
    \E r, s \in Slots :
        /\ req[r].pc = "done" /\ req[r].kind = "signup" /\ req[r].code = 409
        /\ req[s].pc = "done" /\ req[s].kind = "signup" /\ req[s].code = 200
        /\ req[r].username = req[s].username
        /\ req[r].hit < req[s].hit
        /\ req[s].id = 1 /\ Len(login) = 1

\* C26: authLimiter counts every request to /api/login and /api/signup
\* that reaches it, in every environment; a request passes on towards its
\* handler only as one of the first AuthMax of the window, and the one
\* counted after them is answered 429 without reaching the handler.
C26_AuthLimit ==
    [][\A r \in Slots :
          (req[r].pc = "idle" /\ req'[r].pc # "idle"
           /\ req'[r].kind \in {"login", "signup"})
          => /\ req'[r].hit > 0 => (req'[r].hit = authHits + 1 /\ authHits' = authHits + 1)
             /\ req'[r].hit = 0 => (req'[r].pc = "done" /\ req'[r].code = 429)
             /\ req'[r].hit > AuthMax
                   => (req'[r].pc = "done" /\ req'[r].code = 429 /\ req'[r].queries = 0)
             /\ req'[r].pc # "done" => req'[r].hit \in 1..AuthMax]_vars

\* Outside production, the sixth login request of a window has been refused.
C26_Witness ==
    /\ nodeEnv = "development"
    /\ req["r1"].pc = "done" /\ req["r1"].kind = "login"
    /\ req["r1"].hit = AuthMax + 1 /\ req["r1"].code = 429

====
